---- MODULE Spec2Model ----
(***************************************************************************)
(* EmailMaster CLI: the identity / cache / fetch core.                     *)
(*                                                                         *)
(* The model follows src/package.json (the fetcher: fetchEmails and its    *)
(* load/save helpers), src/src/utils/emailIdManager.js (the identity       *)
(* store and the identifier resolver), the commands of                     *)
(* src/unnamed/part_002, replyToEmail of src/unnamed/part_000, the batch   *)
(* functions of src/src/ai/geminiAI.js and the account manager at the end  *)
(* of src/src/utils/configUtils.js.                                        *)
(*                                                                         *)
(* Spec is the fetch cycle with its failures; ResolveSpec the identifier   *)
(* commands between fetches; ReplySpec the reply command with its options; *)
(* FanOutSpec the fetch with its messages.get requests taken one by one;   *)
(* CyclesSpec fetch after fetch under fairness; UniqueIdSpec               *)
(* generateEmailId on its own; EnrichSpec the AI batch functions;          *)
(* AccountSpec the account commands.                                       *)
(*                                                                         *)
(* One CLI process runs at a time (a single-user tool).  A process is a    *)
(* sequence of awaited I/O calls; the model has one action per awaited     *)
(* call, together with the synchronous code that follows it up to the next *)
(* await.  Between two processes the environment may change the mailbox    *)
(* held by the Mail Provider and may delete or corrupt the persisted       *)
(* files.  File writes either replace the whole file or fail and leave it  *)
(* as it was.  Dates are whole seconds.                                    *)
(***************************************************************************)
EXTENDS Integers, Sequences, FiniteSets, TLC

(***************************************************************************)
(* Bounds of the model                                                     *)
(***************************************************************************)
\* provider-native message ids, in the order the provider lists equal dates
IdSeq == <<"m1", "m2", "m3">>
Ids == {IdSeq[i] : i \in 1..Len(IdSeq)}
\* largest Date header value (seconds)
MaxDate == 2
Dates == 1..MaxDate
\* largest value of the --max option that is tried
MaxResultsBound == 2
\* how many times the environment deletes or corrupts a persisted file
MaxFaults == 1

NoId == ""
\* uniqueIds: provider ids, or the fallback hash (one per text of a date)
HashSeq == <<"h1", "h2", "h3", "h4", "h5", "h6">>
HashIds == {HashSeq[i] : i \in 1..Len(HashSeq)}
Uids == Ids \cup HashIds
MaxIndex == Cardinality(Uids)

FileNames == {"meta", "map", "emails"}

(***************************************************************************)
(* State                                                                   *)
(***************************************************************************)
VARIABLES
  inbox,         \* Mail Provider: id -> [date, ver]; date 0 = not in the inbox
  inclusive,     \* Mail Provider: does "after:T" match a message dated T
  metaFile,      \* cache_metadata.json   [st, data]
  mapFile,       \* email_id_mapping.json [st, data]
  emailsFile,    \* emails.json           [st, data]
  pc,            \* position of the running process ("idle": none)
  caller,        \* who called fetchEmails: the fetch command, or another one
  maxResults,    \* fetchEmails parameter
  metadata,      \* fetchEmails local
  cachedEmails,  \* fetchEmails local
  messages,      \* fetchEmails local: ids listed by the provider
  newEmails,     \* fetchEmails local
  allEmails,     \* argument of updateEmailMapping
  mapping,       \* updateEmailMapping local
  emailsWithIds, \* result of updateEmailMapping
  failedAt,      \* the step whose error ended the process ("" : none)
  fell,          \* load fallbacks taken by this process
  pre,           \* the three files as they were when the process started
  faults,        \* number of environment faults so far
  quiet,         \* the last process succeeded and nothing happened since
  cleanStart,    \* value of quiet when this process started
  histIdx,       \* id -> indices updateEmailMapping has returned for it
  preHist,       \* histIdx when the process started
  token,         \* view / reply / calendar-export: the identifier argument
  result,        \* view / reply / calendar-export: what the command acts on
  enrich,        \* AI batch function: its batch, the AI's answer, its result
  accountsFile,  \* accounts.json: [accounts, currentAccount]
  accountOp,     \* account command: what it did
  fanout,        \* fetchEmails: the messages.get requests of Promise.all
  uid,           \* generateEmailId: an email, its uniqueId, the record stored
  reply          \* reply command: its options, its requests, its outcome

files == <<metaFile, mapFile, emailsFile>>
provider == <<inbox, inclusive>>
locals == <<caller, maxResults, metadata, cachedEmails, messages, newEmails,
            allEmails, mapping, emailsWithIds, failedAt, fell, pre,
            cleanStart, preHist>>
\* the state of the fetcher, its position apart
fetcher == <<provider, files, locals, faults, quiet, histIdx, fanout>>
\* the state of the commands that take an identifier or an email
identified == <<token, result, reply, uid>>
accounts == <<accountsFile, accountOp>>
commands == <<token, result, reply, enrich, accountsFile, accountOp, uid>>
others == <<commands, fanout>>
vars == <<inbox, inclusive, metaFile, mapFile, emailsFile, pc, caller,
          maxResults, metadata, cachedEmails, messages, newEmails, allEmails,
          mapping, emailsWithIds, failedAt, fell, pre, faults, quiet,
          cleanStart, histIdx, preHist, token, result, enrich,
          accountsFile, accountOp, reply, fanout, uid>>

(***************************************************************************)
(* Values                                                                  *)
(***************************************************************************)
\* loadEmailIdMapping's default
EmptyMapping ==
  [indexToId |-> [i \in 1..MaxIndex |-> NoId],
   idToIndex |-> [u \in Uids |-> 0],
   nextIndex |-> 1]

\* loadCacheMetadata's default (0 stands for null)
EmptyMetadata == [lastFetchedId |-> NoId, lastFetchedTimestamp |-> 0]

MissingFile(default) == [st |-> "missing", data |-> default]
MalformedFile(default) == [st |-> "malformed", data |-> default]
OkFile(data) == [st |-> "ok", data |-> data]

(***************************************************************************)
(* Pure functions                                                          *)
(***************************************************************************)
SeqIds(s) == {s[i].id : i \in 1..Len(s)}

\* the fallback of generateEmailId: sha256 of `${from}|${subject}|${date}`,
\* cut to 12 hex characters; the model's records differ in the date alone.
\* The template string holds the text of the date: Date.prototype.toString
\* for the Date object parseMessage builds, the ISO string for a record read
\* from emails.json; different strings have different hashes.
HashOf(email) ==
  IF email.dform = "Date" THEN HashSeq[2 * email.date - 1]
  ELSE HashSeq[2 * email.date]

generateEmailId(email) ==
  IF email.id # NoId THEN email.id ELSE HashOf(email)

\* parseMessage: the record built from the provider's message
parseMessage(id) ==
  [id |-> id, date |-> inbox[id].date, ver |-> inbox[id].ver, dform |-> "Date",
   uniqueId |-> NoId, assignedIndex |-> 0]

\* writeJson followed by readJson: a Date comes back as an ISO string
JsonEmail(e) == [e EXCEPT !.dform = "iso"]
JsonEmails(s) == [i \in 1..Len(s) |-> JsonEmail(s[i])]

\* SortNewestFirst with the comparison turned round: oldest first
RECURSIVE InsertByDate_OldestFirst(_, _)
InsertByDate_OldestFirst(x, s) ==
  IF s = <<>> THEN <<x>>
  ELSE IF Head(s).date <= x.date
       THEN <<Head(s)>> \o InsertByDate_OldestFirst(x, Tail(s))
       ELSE <<x>> \o s

\* Array.prototype.sort with (a, b) => new Date(b.date) - new Date(a.date):
\* newest first, stable
RECURSIVE InsertByDate(_, _)
InsertByDate(x, s) ==
  IF s = <<>> THEN <<x>>
  ELSE IF Head(s).date >= x.date
       THEN <<Head(s)>> \o InsertByDate(x, Tail(s))
       ELSE <<x>> \o s

RECURSIVE SortAcc(_, _)
SortAcc(s, acc) ==
  IF s = <<>> THEN acc ELSE SortAcc(Tail(s), InsertByDate(Head(s), acc))

SortNewestFirst(s) == SortAcc(s, <<>>)

Take(s, n) == IF Len(s) <= n THEN s ELSE SubSeq(s, 1, n)

RECURSIVE Filter(_, _)
Filter(s, keep) ==
  IF s = <<>> THEN <<>>
  ELSE IF Head(s).id \in keep
       THEN <<Head(s)>> \o Filter(Tail(s), keep)
       ELSE Filter(Tail(s), keep)

\* gmail.users.messages.list with q = "in:inbox" or "in:inbox after:T":
\* the matching messages, newest first, at most maxResults of them
Matches(id, ts) ==
  /\ inbox[id].date # 0
  /\ \/ ts = 0
     \/ inbox[id].date > ts
     \/ inclusive /\ inbox[id].date = ts

ListMessages(ts, max) ==
  LET all == [i \in 1..Len(IdSeq) |-> [id |-> IdSeq[i], date |-> inbox[IdSeq[i]].date]]
      hit == Filter(all, {id \in Ids : Matches(id, ts)})
      srt == SortNewestFirst(hit)
  IN  Take([i \in 1..Len(srt) |-> srt[i].id], max)

\* MergeEmails that returns the new batch alone
MergeEmails_NewOnly(new, cached) == new

\* MergeEmails with the cached records in front of the new batch
MergeEmails_CachedFirst(new, cached) ==
  LET newEmailIds == SeqIds(new)
      uniqueCachedEmails == Filter(cached, SeqIds(cached) \ newEmailIds)
  IN  uniqueCachedEmails \o new

\* MergeEmails without the filter on the cached records
MergeEmails_NoDedup(new, cached) == new \o cached

\* lines 309-313 of fetchEmails: the new batch, then the cached records whose
\* id is not in the new batch
MergeEmails(new, cached) ==
  LET newEmailIds == SeqIds(new)
      uniqueCachedEmails == Filter(cached, SeqIds(cached) \ newEmailIds)
  IN  new \o uniqueCachedEmails

\* AssignOne without the lookup of an existing index
AssignOne_AlwaysNew(email, m) ==
  LET emailId == generateEmailId(email)
      newIndex == m.nextIndex IN
  [email   |-> [email EXCEPT !.uniqueId = emailId, !.assignedIndex = newIndex],
   mapping |-> [indexToId |-> [m.indexToId EXCEPT ![newIndex] = emailId],
                idToIndex |-> [m.idToIndex EXCEPT ![emailId] = newIndex],
                nextIndex |-> m.nextIndex + 1]]

\* AssignOne without mapping.nextIndex++
AssignOne_NoIncrement(email, m) ==
  LET emailId == generateEmailId(email) IN
  IF m.idToIndex[emailId] # 0
  THEN [email   |-> [email EXCEPT !.uniqueId = emailId,
                                   !.assignedIndex = m.idToIndex[emailId]],
        mapping |-> m]
  ELSE LET newIndex == m.nextIndex IN
       [email   |-> [email EXCEPT !.uniqueId = emailId,
                                   !.assignedIndex = newIndex],
        mapping |-> [indexToId |-> [m.indexToId EXCEPT ![newIndex] = emailId],
                     idToIndex |-> [m.idToIndex EXCEPT ![emailId] = newIndex],
                     nextIndex |-> m.nextIndex]]

\* one round of the forEach of updateEmailMapping
AssignOne(email, m) ==
  LET emailId == generateEmailId(email) IN
  IF m.idToIndex[emailId] # 0
  THEN [email   |-> [email EXCEPT !.uniqueId = emailId,
                                   !.assignedIndex = m.idToIndex[emailId]],
        mapping |-> m]
  ELSE LET newIndex == m.nextIndex IN
       [email   |-> [email EXCEPT !.uniqueId = emailId,
                                   !.assignedIndex = newIndex],
        mapping |-> [indexToId |-> [m.indexToId EXCEPT ![newIndex] = emailId],
                     idToIndex |-> [m.idToIndex EXCEPT ![emailId] = newIndex],
                     nextIndex |-> m.nextIndex + 1]]

\* AssignAll in which every round starts from the mapping as it was loaded
RECURSIVE AssignAll_EachFromLoaded(_, _, _)
AssignAll_EachFromLoaded(emails, m, updatedEmails) ==
  IF emails = <<>> THEN [emails |-> updatedEmails, mapping |-> m]
  ELSE LET r == AssignOne(Head(emails), m)
           rest == AssignAll_EachFromLoaded(Tail(emails), m,
                                            Append(updatedEmails, r.email))
       IN  [emails |-> rest.emails,
            mapping |-> IF Tail(emails) = <<>> THEN r.mapping ELSE rest.mapping]

\* the forEach of updateEmailMapping
RECURSIVE AssignAll(_, _, _)
AssignAll(emails, m, updatedEmails) ==
  IF emails = <<>> THEN [emails |-> updatedEmails, mapping |-> m]
  ELSE LET r == AssignOne(Head(emails), m)
       IN  AssignAll(Tail(emails), r.mapping, Append(updatedEmails, r.email))

(***************************************************************************)
(* Identifiers as the user types them.  A uniqueId is a string; the model  *)
(* names the uniqueIds ("m1", ...) and Spelling gives the characters of    *)
(* each: two ids that share their first 8 characters, one id made of       *)
(* decimal digits only, and short ids for the fallback hash.               *)
(***************************************************************************)
\* findEmailByIdentifier: identifier.length >= 8
MinPrefixLen == 8

Digits == <<"0", "1", "2", "3", "4", "5", "6", "7", "8", "9">>
DigitSet == {Digits[i] : i \in 1..Len(Digits)}
DigitVal(c) == (CHOOSE i \in 1..Len(Digits) : Digits[i] = c) - 1

Spelling ==
  [u \in Uids |->
     CASE u = "m1" -> <<"a", "a", "a", "a", "1", "1", "1", "1", "b", "b", "b", "b">>
       [] u = "m2" -> <<"a", "a", "a", "a", "1", "1", "1", "1", "c", "c">>
       [] u = "m3" -> <<"1", "0", "0", "0", "0", "0", "0", "2">>
       [] u = "h1" -> <<"c", "c", "c", "2", "2", "2", "1">>
       [] u = "h2" -> <<"c", "c", "c", "2", "2", "2", "2">>
       [] u = "h3" -> <<"c", "c", "c", "2", "2", "2", "3">>
       [] u = "h4" -> <<"c", "c", "c", "2", "2", "2", "4">>
       [] u = "h5" -> <<"c", "c", "c", "2", "2", "2", "5">>
       [] OTHER    -> <<"c", "c", "c", "2", "2", "2", "6">>]

Prefixes(s) == {SubSeq(s, 1, n) : n \in 1..Len(s)}

\* the decimal numerals of the indices, and of one index beyond them
RECURSIVE NumeralOf(_)
NumeralOf(n) ==
  IF n < 10 THEN <<Digits[n + 1]>>
  ELSE NumeralOf(n \div 10) \o <<Digits[(n % 10) + 1]>>

\* what is typed as an email number: the numerals 0..MaxIndex+1, a numeral
\* with an exponent, and a string that is no number
Numbers ==
  {NumeralOf(n) : n \in 0..(MaxIndex + 1)}
    \cup {<<"1", "e", "1">>, <<"z", "z", "z", "z">>}

\* what is typed as an identifier: a number, or a prefix of a provider id
Tokens == Numbers \cup UNION {Prefixes(Spelling[u]) : u \in Ids}

\* NaN, and undefined where a number is expected
NaN == -1

IsDigits(s) == s # <<>> /\ \A i \in 1..Len(s) : s[i] \in DigitSet

RECURSIVE DecimalValue(_)
DecimalValue(s) ==
  IF s = <<>> THEN 0
  ELSE 10 * DecimalValue(SubSeq(s, 1, Len(s) - 1)) + DigitVal(s[Len(s)])

RECURSIVE Pow10(_)
Pow10(n) == IF n = 0 THEN 1 ELSE 10 * Pow10(n - 1)

\* Number(identifier) on strings of digits and letters: a decimal numeral, or
\* a decimal numeral with an exponent ("1e1" is 10); NaN otherwise.  Every
\* number it yields here is an integer.
NumberOf(s) ==
  IF IsDigits(s) THEN DecimalValue(s)
  ELSE IF \E k \in 2..(Len(s) - 1) :
             /\ s[k] = "e"
             /\ IsDigits(SubSeq(s, 1, k - 1))
             /\ IsDigits(SubSeq(s, k + 1, Len(s)))
       THEN LET k == CHOOSE k \in 2..(Len(s) - 1) : s[k] = "e" IN
            DecimalValue(SubSeq(s, 1, k - 1))
              * Pow10(DecimalValue(SubSeq(s, k + 1, Len(s))))
       ELSE NaN

\* parseInt(identifier, 10): the value of the longest prefix of digits
RECURSIVE LeadingDigits(_)
LeadingDigits(s) ==
  IF s = <<>> \/ Head(s) \notin DigitSet THEN <<>>
  ELSE <<Head(s)>> \o LeadingDigits(Tail(s))

parseInt(s) ==
  IF LeadingDigits(s) = <<>> THEN NaN ELSE DecimalValue(LeadingDigits(s))

StartsWith(s, t) == Len(t) <= Len(s) /\ SubSeq(s, 1, Len(t)) = t

\* mapping.idToIndex[identifier]: 0 stands for undefined
IdToIndexAt(m, identifier) ==
  IF \E u \in Uids : Spelling[u] = identifier /\ m.idToIndex[u] # 0
  THEN m.idToIndex[CHOOSE u \in Uids : Spelling[u] = identifier]
  ELSE 0

\* Object.keys(mapping.idToIndex): the keys that are canonical array indices
\* first, in ascending numeric order, then the other keys in the order they
\* were inserted, which is the order of their indices
IsArrayIndex(s) == IsDigits(s) /\ (Len(s) = 1 \/ s[1] # "0")

RECURSIVE AscendingKeys(_)
AscendingKeys(S) ==
  IF S = {} THEN <<>>
  ELSE LET k == CHOOSE k \in S :
                  \A j \in S : DecimalValue(Spelling[k]) <= DecimalValue(Spelling[j])
       IN  <<k>> \o AscendingKeys(S \ {k})

RECURSIVE InsertedKeys(_, _)
InsertedKeys(m, i) ==
  IF i > MaxIndex THEN <<>>
  ELSE LET S == {u \in Uids : m.idToIndex[u] = i /\ ~IsArrayIndex(Spelling[u])}
       IN  (IF S = {} THEN <<>> ELSE <<CHOOSE u \in S : TRUE>>)
             \o InsertedKeys(m, i + 1)

ObjectKeys(m) ==
  AscendingKeys({u \in Uids : m.idToIndex[u] # 0 /\ IsArrayIndex(Spelling[u])})
    \o InsertedKeys(m, 1)

\* an email that is undefined
NoEmail ==
  [id |-> NoId, date |-> 0, ver |-> 0, dform |-> "iso", uniqueId |-> NoId,
   assignedIndex |-> 0]

NoResult ==
  [threw |-> FALSE, success |-> FALSE, error |-> "", email |-> NoEmail,
   index |-> 0, uniqueId |-> NoId]

Failure(error) == [NoResult EXCEPT !.error = error]

\* FindTarget whose partial match has no minimum length
FindTarget_AnyPrefix(identifier, m) ==
  LET keys == ObjectKeys(m)
      hits == {i \in 1..Len(keys) : StartsWith(Spelling[keys[i]], identifier)}
  IN  IF NumberOf(identifier) # NaN THEN parseInt(identifier)
      ELSE IF IdToIndexAt(m, identifier) # 0 THEN IdToIndexAt(m, identifier)
      ELSE IF hits # {}
           THEN m.idToIndex[keys[CHOOSE i \in hits : \A j \in hits : i <= j]]
           ELSE 0

\* FindTarget whose partial match takes the last matching key
FindTarget_LastKey(identifier, m) ==
  LET keys == ObjectKeys(m)
      hits == {i \in 1..Len(keys) :
                 /\ StartsWith(Spelling[keys[i]], identifier)
                 /\ Len(identifier) >= MinPrefixLen}
  IN  IF NumberOf(identifier) # NaN THEN parseInt(identifier)
      ELSE IF IdToIndexAt(m, identifier) # 0 THEN IdToIndexAt(m, identifier)
      ELSE IF hits # {}
           THEN m.idToIndex[keys[CHOOSE i \in hits : \A j \in hits : i >= j]]
           ELSE 0

\* findEmailByIdentifier, lines 114-138: targetIndex (0: the function
\* returns null before it looks at the emails)
FindTarget(identifier, m) ==
  LET keys == ObjectKeys(m)
      hits == {i \in 1..Len(keys) :
                 /\ StartsWith(Spelling[keys[i]], identifier)
                 /\ Len(identifier) >= MinPrefixLen}
  IN  IF NumberOf(identifier) # NaN THEN parseInt(identifier)
      ELSE IF IdToIndexAt(m, identifier) # 0 THEN IdToIndexAt(m, identifier)
      ELSE IF hits # {}
           THEN m.idToIndex[keys[CHOOSE i \in hits : \A j \in hits : i <= j]]
           ELSE 0

\* findEmailByIdentifier: null is NoResult
findEmailByIdentifier(identifier, emails, m) ==
  LET targetIndex == FindTarget(identifier, m)
      hits == {i \in 1..Len(emails) :
                 /\ emails[i].assignedIndex # 0
                 /\ emails[i].assignedIndex = targetIndex}
  IN  IF hits = {} THEN NoResult
      ELSE LET email == emails[CHOOSE i \in hits : \A j \in hits : i <= j] IN
           [threw |-> FALSE, success |-> TRUE, error |-> "", email |-> email,
            index |-> targetIndex, uniqueId |-> email.uniqueId]

(***************************************************************************)
(* Initial state: nothing persisted, an empty mailbox, no process          *)
(***************************************************************************)
NoFiles ==
  [meta   |-> MissingFile(EmptyMetadata),
   map    |-> MissingFile(EmptyMapping),
   emails |-> MissingFile(<<>>)]

NoHist == [u \in Uids |-> {}]

LocalsCleared ==
  /\ caller' = ""
  /\ maxResults' = 0
  /\ metadata' = EmptyMetadata
  /\ cachedEmails' = <<>>
  /\ messages' = <<>>
  /\ newEmails' = <<>>
  /\ allEmails' = <<>>
  /\ mapping' = EmptyMapping
  /\ emailsWithIds' = <<>>
  /\ failedAt' = ""
  /\ fell' = {}
  /\ pre' = NoFiles
  /\ cleanStart' = FALSE
  /\ preHist' = NoHist

Init ==
  /\ inbox = [id \in Ids |-> [date |-> 0, ver |-> 0]]
  /\ inclusive \in BOOLEAN
  /\ metaFile = MissingFile(EmptyMetadata)
  /\ mapFile = MissingFile(EmptyMapping)
  /\ emailsFile = MissingFile(<<>>)
  /\ pc = "idle"
  /\ caller = ""
  /\ maxResults = 0
  /\ metadata = EmptyMetadata
  /\ cachedEmails = <<>>
  /\ messages = <<>>
  /\ newEmails = <<>>
  /\ allEmails = <<>>
  /\ mapping = EmptyMapping
  /\ emailsWithIds = <<>>
  /\ failedAt = ""
  /\ fell = {}
  /\ pre = NoFiles
  /\ faults = 0
  /\ quiet = FALSE
  /\ cleanStart = FALSE
  /\ histIdx = NoHist
  /\ preHist = NoHist
  /\ token = <<>>
  /\ result = NoResult
  /\ enrich = [field |-> "", emailBatch |-> <<>>,
               response |-> [kind |-> "", entries |-> <<>>],
               records |-> <<>>, threw |-> FALSE]
  /\ accountsFile = [accounts |-> <<>>, currentAccount |-> NoId]
  /\ accountOp = [op |-> "", success |-> FALSE, name |-> NoId]
  /\ fanout = [pending |-> {}, completed |-> <<>>]
  /\ uid = [email |-> NoEmail, first |-> NoId, second |-> NoId,
            stored |-> NoEmail, recomputed |-> NoId]
  /\ reply = [options |-> [ai |-> FALSE, send |-> FALSE, manual |-> FALSE,
                           draft |-> FALSE, message |-> NoId],
              request |-> "", type |-> "", error |-> ""]

(***************************************************************************)
(* The environment, between two processes                                  *)
(***************************************************************************)
\* a message arrives in the inbox (the ids are names: they are handed out in
\* the order of IdSeq)
Arrive(id, d) ==
  /\ pc = "idle"
  /\ inbox[id].date = 0
  /\ \A i \in 1..Len(IdSeq) :
        IdSeq[i] = id => \A j \in 1..(i - 1) : inbox[IdSeq[j]].date # 0
  /\ inbox' = [inbox EXCEPT ![id] = [date |-> d, ver |-> 1]]
  /\ quiet' = FALSE
  /\ UNCHANGED <<inclusive, files, pc, locals, faults, histIdx>>
  /\ UNCHANGED others

\* the provider's copy of a message changes (labels, snippet); one such
\* change, of the first message, is followed
Touch(id) ==
  /\ pc = "idle"
  /\ inbox[id].date # 0
  /\ id = IdSeq[1]
  /\ inbox[id].ver = 1
  /\ inbox' = [inbox EXCEPT ![id].ver = @ + 1]
  /\ quiet' = FALSE
  /\ UNCHANGED <<inclusive, files, pc, locals, faults, histIdx>>
  /\ UNCHANGED others

\* a persisted file is deleted (st = "missing") or made unparseable
FileFault(f, st) ==
  /\ pc = "idle"
  /\ faults < MaxFaults
  /\ faults' = faults + 1
  /\ quiet' = FALSE
  /\ \/ /\ f = "meta"
        /\ metaFile.st = "ok"
        /\ metaFile' = [st |-> st, data |-> EmptyMetadata]
        /\ UNCHANGED <<mapFile, emailsFile, histIdx>>
     \/ /\ f = "map"
        /\ mapFile.st = "ok"
        /\ mapFile' = [st |-> st, data |-> EmptyMapping]
        /\ histIdx' = NoHist
        /\ UNCHANGED <<metaFile, emailsFile>>
     \/ /\ f = "emails"
        /\ emailsFile.st = "ok"
        /\ emailsFile' = [st |-> st, data |-> <<>>]
        /\ UNCHANGED <<metaFile, mapFile, histIdx>>
  /\ UNCHANGED <<provider, pc, locals>>
  /\ UNCHANGED others

(***************************************************************************)
(* Loading the persisted state.  A file is "ok", "missing" (pathExists is  *)
(* false) or "malformed" (it exists and readJson throws: unparseable JSON, *)
(* or a file that cannot be read).  Each loader returns the file's content *)
(* or, from its catch block, the default; err says whether the error       *)
(* leaves the loader.                                                      *)
(***************************************************************************)
\* loadEmailIdMapping whose catch block rethrows, as the save functions do
loadEmailIdMapping_Rethrows ==
  IF mapFile.st = "ok"
  THEN [err |-> FALSE, value |-> mapFile.data]
  ELSE [err |-> mapFile.st = "malformed", value |-> EmptyMapping]

\* loadEmailIdMapping that does not read the file
loadEmailIdMapping_Forgets == [err |-> FALSE, value |-> EmptyMapping]

loadEmailIdMapping ==
  IF mapFile.st = "ok"
  THEN [err |-> FALSE, value |-> mapFile.data]
  ELSE [err |-> FALSE, value |-> EmptyMapping]

loadCacheMetadata ==
  IF metaFile.st = "ok"
  THEN [err |-> FALSE, value |-> metaFile.data]
  ELSE [err |-> FALSE, value |-> EmptyMetadata]

\* loadCachedEmails without the pathExists test and with a rethrowing catch
loadCachedEmails_NoDefault ==
  IF emailsFile.st = "ok"
  THEN [err |-> FALSE, value |-> emailsFile.data]
  ELSE [err |-> TRUE, value |-> <<>>]

loadCachedEmails ==
  IF emailsFile.st = "ok"
  THEN [err |-> FALSE, value |-> emailsFile.data]
  ELSE [err |-> FALSE, value |-> <<>>]

(***************************************************************************)
(* A process: the fetch command, or another caller of fetchEmails          *)
(***************************************************************************)
\* an error leaves the try block of fetchEmails or of the command: the
\* locals are gone
Fail(step) ==
  /\ pc' = "failed"
  /\ failedAt' = step
  /\ caller' = ""
  /\ maxResults' = 0
  /\ metadata' = EmptyMetadata
  /\ cachedEmails' = <<>>
  /\ messages' = <<>>
  /\ newEmails' = <<>>
  /\ allEmails' = <<>>
  /\ mapping' = EmptyMapping
  /\ emailsWithIds' = <<>>
  /\ fell' = {}
  /\ UNCHANGED <<pre, cleanStart, preHist>>

Start(c, max) ==
  /\ pc = "idle"
  /\ pc' = IF c = "fetch" THEN "cmdread" ELSE "begin"
  /\ caller' = c
  /\ maxResults' = max
  /\ pre' = [meta |-> metaFile, map |-> mapFile, emails |-> emailsFile]
  /\ cleanStart' = quiet
  /\ preHist' = histIdx
  /\ quiet' = FALSE
  /\ UNCHANGED <<provider, files, metadata, cachedEmails, messages, newEmails,
                 allEmails, mapping, emailsWithIds, failedAt, fell, faults,
                 histIdx>>
  /\ UNCHANGED others

\* the fetch command counts the cached emails before it calls fetchEmails
CmdRead ==
  /\ pc = "cmdread"
  /\ IF emailsFile.st = "malformed"
     THEN Fail("cmdread")
     ELSE /\ pc' = "begin"
          /\ UNCHANGED locals
  /\ UNCHANGED <<provider, files, faults, quiet, histIdx>>
  /\ UNCHANGED others

\* fetchEmails up to the list request: account, client, loadCacheMetadata,
\* loadCachedEmails
FetchBegin(ok) ==
  /\ pc = "begin"
  /\ IF ~ok THEN Fail("auth")
     ELSE IF loadCacheMetadata.err THEN Fail("loadmeta")
     ELSE IF loadCachedEmails.err THEN Fail("loadcache")
     ELSE /\ pc' = "list"
          /\ metadata' = loadCacheMetadata.value
          /\ cachedEmails' = loadCachedEmails.value
          /\ fell' = fell \cup {<<"meta", metaFile.st>>, <<"emails", emailsFile.st>>}
          /\ UNCHANGED <<caller, maxResults, messages, newEmails, allEmails,
                         mapping, emailsWithIds, failedAt, pre, cleanStart,
                         preHist>>
  /\ UNCHANGED <<provider, files, faults, quiet, histIdx>>
  /\ UNCHANGED others

\* List whose branch for an empty answer passes no email on
List_EmptyDropsCache(ok) ==
  /\ pc = "list"
  /\ IF ok
     THEN LET got == ListMessages(metadata.lastFetchedTimestamp, maxResults) IN
          /\ messages' = got
          /\ IF got = <<>>
             THEN pc' = "assign" /\ allEmails' = <<>>
             ELSE pc' = "get" /\ UNCHANGED allEmails
          /\ UNCHANGED <<caller, maxResults, metadata, cachedEmails, newEmails,
                         mapping, emailsWithIds, failedAt, fell, pre,
                         cleanStart, preHist>>
     ELSE Fail("list")
  /\ UNCHANGED <<provider, files, faults, quiet, histIdx>>
  /\ UNCHANGED others

\* List whose branch for an empty answer saves and returns the cached emails
\* as they are, without updateEmailMapping
List_EmptyKeepsCache(ok) ==
  /\ pc = "list"
  /\ IF ok
     THEN LET got == ListMessages(metadata.lastFetchedTimestamp, maxResults) IN
          /\ messages' = got
          /\ IF got = <<>>
             THEN /\ pc' = "savecache"
                  /\ emailsWithIds' = cachedEmails
                  /\ UNCHANGED allEmails
             ELSE pc' = "get" /\ UNCHANGED <<allEmails, emailsWithIds>>
          /\ UNCHANGED <<caller, maxResults, metadata, cachedEmails, newEmails,
                         mapping, failedAt, fell, pre, cleanStart, preHist>>
     ELSE Fail("list")
  /\ UNCHANGED <<provider, files, faults, quiet, histIdx>>
  /\ UNCHANGED others

\* gmail.users.messages.list, and the branch on an empty answer
List(ok) ==
  /\ pc = "list"
  /\ IF ok
     THEN LET got == ListMessages(metadata.lastFetchedTimestamp, maxResults) IN
          /\ messages' = got
          /\ IF got = <<>>
             THEN pc' = "assign" /\ allEmails' = cachedEmails
             ELSE pc' = "get" /\ UNCHANGED allEmails
          /\ UNCHANGED <<caller, maxResults, metadata, cachedEmails, newEmails,
                         mapping, emailsWithIds, failedAt, fell, pre,
                         cleanStart, preHist>>
     ELSE Fail("list")
  /\ UNCHANGED <<provider, files, faults, quiet, histIdx>>
  /\ UNCHANGED others

\* Promise.all over messages.get + parseMessage, then the sort; bad: the
\* listed messages whose request or parse throws
Get(bad) ==
  /\ pc = "get"
  /\ bad \subseteq {messages[i] : i \in 1..Len(messages)}
  /\ IF bad = {}
     THEN /\ newEmails' = SortNewestFirst(
                 [i \in 1..Len(messages) |-> parseMessage(messages[i])])
          /\ pc' = "savemeta"
          /\ UNCHANGED <<caller, maxResults, metadata, cachedEmails, messages,
                         allEmails, mapping, emailsWithIds, failedAt, fell,
                         pre, cleanStart, preHist>>
     ELSE Fail("get")
  /\ UNCHANGED <<provider, files, faults, quiet, histIdx>>
  /\ UNCHANGED others

\* SaveMeta that takes the last email of the sorted batch
SaveMeta_LastEmail(ok) ==
  /\ pc = "savemeta"
  /\ IF ok
     THEN /\ metaFile' = OkFile([lastFetchedId |-> newEmails[Len(newEmails)].id,
                                 lastFetchedTimestamp |->
                                   newEmails[Len(newEmails)].date])
          /\ allEmails' = MergeEmails(newEmails, cachedEmails)
          /\ pc' = "assign"
          /\ UNCHANGED <<caller, maxResults, metadata, cachedEmails, messages,
                         newEmails, mapping, emailsWithIds, failedAt, fell,
                         pre, cleanStart, preHist>>
     ELSE Fail("savemeta") /\ UNCHANGED metaFile
  /\ UNCHANGED <<provider, mapFile, emailsFile, faults, quiet, histIdx>>
  /\ UNCHANGED others

(***************************************************************************)
(* The same step request by request.  messages.map starts one async        *)
(* function per listed message; each awaits its messages.get and the       *)
(* requests complete in any order; Promise.all resolves, once the last has *)
(* completed, to the array of the results in the order of messages, and    *)
(* rejects as soon as one request fails.                                   *)
(***************************************************************************)
NoFanout == [pending |-> {}, completed |-> <<>>]

GetIssue ==
  /\ pc = "get"
  /\ pc' = "getting"
  /\ fanout' = [pending |-> {messages[i] : i \in 1..Len(messages)},
                completed |-> <<>>]
  /\ UNCHANGED <<provider, files, locals, faults, quiet, histIdx, commands>>

GetComplete(id, ok) ==
  /\ pc = "getting"
  /\ id \in fanout.pending
  /\ IF ok
     THEN /\ fanout' = [pending |-> fanout.pending \ {id},
                        completed |-> Append(fanout.completed, id)]
          /\ UNCHANGED <<pc, locals>>
     ELSE Fail("get") /\ fanout' = NoFanout
  /\ UNCHANGED <<provider, files, faults, quiet, histIdx, commands>>

\* GetJoin whose array holds the results in the order of completion
GetJoin_CompletionOrder ==
  /\ pc = "getting"
  /\ fanout.pending = {}
  /\ newEmails' = SortNewestFirst(
          [i \in 1..Len(fanout.completed) |-> parseMessage(fanout.completed[i])])
  /\ pc' = "savemeta"
  /\ UNCHANGED <<caller, maxResults, metadata, cachedEmails, messages,
                 allEmails, mapping, emailsWithIds, failedAt, fell,
                 pre, cleanStart, preHist>>
  /\ UNCHANGED <<provider, files, faults, quiet, histIdx, commands, fanout>>

\* Promise.all resolves; the sort
GetJoin ==
  /\ pc = "getting"
  /\ fanout.pending = {}
  /\ newEmails' = SortNewestFirst(
          [i \in 1..Len(messages) |-> parseMessage(messages[i])])
  /\ pc' = "savemeta"
  /\ UNCHANGED <<caller, maxResults, metadata, cachedEmails, messages,
                 allEmails, mapping, emailsWithIds, failedAt, fell,
                 pre, cleanStart, preHist>>
  /\ UNCHANGED <<provider, files, faults, quiet, histIdx, commands, fanout>>

\* saveCacheMetadata of the newest email, then the merge
SaveMeta(ok) ==
  /\ pc = "savemeta"
  /\ IF ok
     THEN /\ metaFile' = OkFile([lastFetchedId |-> newEmails[1].id,
                                 lastFetchedTimestamp |-> newEmails[1].date])
          /\ allEmails' = MergeEmails(newEmails, cachedEmails)
          /\ pc' = "assign"
          /\ UNCHANGED <<caller, maxResults, metadata, cachedEmails, messages,
                         newEmails, mapping, emailsWithIds, failedAt, fell,
                         pre, cleanStart, preHist>>
     ELSE Fail("savemeta") /\ UNCHANGED metaFile
  /\ UNCHANGED <<provider, mapFile, emailsFile, faults, quiet, histIdx>>
  /\ UNCHANGED others

\* updateEmailMapping: loadEmailIdMapping and the forEach
Assign ==
  /\ pc = "assign"
  /\ IF loadEmailIdMapping.err THEN Fail("loadmap")
     ELSE /\ LET r == AssignAll(allEmails, loadEmailIdMapping.value, <<>>) IN
             /\ mapping' = r.mapping
             /\ emailsWithIds' = r.emails
          /\ fell' = fell \cup {<<"map", mapFile.st>>}
          /\ pc' = "savemap"
          /\ UNCHANGED <<caller, maxResults, metadata, cachedEmails, messages,
                         newEmails, allEmails, failedAt, pre, cleanStart,
                         preHist>>
  /\ UNCHANGED <<provider, files, faults, quiet, histIdx>>
  /\ UNCHANGED others

\* the indices a returned list gives to each uniqueId
Returned(emails) ==
  [u \in Uids |-> {emails[i].assignedIndex :
                     i \in {j \in 1..Len(emails) : emails[j].uniqueId = u}}]

\* SaveMap in a fetchEmails that saves the cache before the mapping
SaveMap_CacheFirst(ok) ==
  /\ pc = "savemap"
  /\ emailsFile' = OkFile(JsonEmails(emailsWithIds))
  /\ IF ok
     THEN /\ mapFile' = OkFile(mapping)
          /\ histIdx' = [u \in Uids |-> histIdx[u] \cup Returned(emailsWithIds)[u]]
          /\ pc' = "savecache"
          /\ UNCHANGED locals
     ELSE Fail("savemap") /\ UNCHANGED <<mapFile, histIdx>>
  /\ UNCHANGED <<provider, metaFile, faults, quiet>>
  /\ UNCHANGED others

\* updateEmailMapping: saveEmailIdMapping and the return
SaveMap(ok) ==
  /\ pc = "savemap"
  /\ IF ok
     THEN /\ mapFile' = OkFile(mapping)
          /\ histIdx' = [u \in Uids |-> histIdx[u] \cup Returned(emailsWithIds)[u]]
          /\ pc' = "savecache"
          /\ UNCHANGED locals
     ELSE Fail("savemap") /\ UNCHANGED <<mapFile, histIdx>>
  /\ UNCHANGED <<provider, metaFile, emailsFile, faults, quiet>>
  /\ UNCHANGED others

\* SaveCache whose catch block logs the error and does not rethrow
SaveCache_Swallows(ok) ==
  /\ pc = "savecache"
  /\ IF ok
     THEN emailsFile' = OkFile(JsonEmails(emailsWithIds))
     ELSE UNCHANGED emailsFile
  /\ pc' = IF caller = "fetch" THEN "cmdsave" ELSE "done"
  /\ UNCHANGED locals
  /\ UNCHANGED <<provider, metaFile, mapFile, faults, quiet, histIdx>>
  /\ UNCHANGED others

\* saveEmailsToCache and the return of fetchEmails
SaveCache(ok) ==
  /\ pc = "savecache"
  /\ IF ok
     THEN /\ emailsFile' = OkFile(JsonEmails(emailsWithIds))
          /\ pc' = IF caller = "fetch" THEN "cmdsave" ELSE "done"
          /\ UNCHANGED locals
     ELSE Fail("savecache") /\ UNCHANGED emailsFile
  /\ UNCHANGED <<provider, metaFile, mapFile, faults, quiet, histIdx>>
  /\ UNCHANGED others

\* the fetch command writes the returned list to emails.json once more
CmdSave(ok) ==
  /\ pc = "cmdsave"
  /\ IF ok
     THEN /\ emailsFile' = OkFile(JsonEmails(emailsWithIds))
          /\ pc' = "done"
          /\ UNCHANGED locals
     ELSE Fail("cmdsave") /\ UNCHANGED emailsFile
  /\ UNCHANGED <<provider, metaFile, mapFile, faults, quiet, histIdx>>
  /\ UNCHANGED others

Running == pc \notin {"idle", "done", "failed", "killed"}

\* the process is killed between two steps; its memory is gone
Kill ==
  /\ Running
  /\ pc' = "killed"
  /\ caller' = ""
  /\ maxResults' = 0
  /\ metadata' = EmptyMetadata
  /\ cachedEmails' = <<>>
  /\ messages' = <<>>
  /\ newEmails' = <<>>
  /\ allEmails' = <<>>
  /\ mapping' = EmptyMapping
  /\ emailsWithIds' = <<>>
  /\ fell' = {}
  /\ UNCHANGED <<provider, files, failedAt, pre, cleanStart, preHist, faults,
                 quiet, histIdx>>
  /\ UNCHANGED others

\* the process ends; the next one starts with fresh memory
Exit ==
  /\ pc \in {"done", "failed", "killed"}
  /\ pc' = "idle"
  /\ quiet' = (pc = "done")
  /\ LocalsCleared
  /\ fanout' = [pending |-> {}, completed |-> <<>>]
  /\ UNCHANGED <<provider, files, faults, histIdx>>
  /\ UNCHANGED commands

(***************************************************************************)
(* The commands that take an email identifier: view, reply and             *)
(* calendar-export --email.  They read the persisted files and write none. *)
(***************************************************************************)
\* resolveEmailIdentifier without its try / catch
resolveEmailIdentifier_NoCatch(identifier) ==
  IF emailsFile.st = "missing" THEN Failure("no emails")
  ELSE IF emailsFile.st = "malformed"
       THEN [Failure("exception") EXCEPT !.threw = TRUE]
       ELSE LET r == findEmailByIdentifier(identifier, emailsFile.data,
                                           loadEmailIdMapping.value)
            IN  IF r.success THEN r ELSE Failure("not found")

\* resolveEmailIdentifier: readJson of a malformed emails.json throws into
\* the catch block
resolveEmailIdentifier(identifier) ==
  IF emailsFile.st = "missing" THEN Failure("no emails")
  ELSE IF emailsFile.st = "malformed" THEN Failure("exception")
       ELSE LET r == findEmailByIdentifier(identifier, emailsFile.data,
                                           loadEmailIdMapping.value)
            IN  IF r.success THEN r ELSE Failure("not found")

\* the reply command and replyToEmail up to originalEmail = emails[index]
replyToEmail(emailNumber) ==
  LET emailIndex == parseInt(emailNumber)
      emails == loadCachedEmails.value
  IN  IF emailIndex = NaN \/ emailIndex <= 0 THEN Failure("invalid number")
      ELSE IF emails = <<>> THEN Failure("no emails")
      ELSE IF emailIndex > Len(emails) THEN Failure("not found")
      ELSE [threw |-> FALSE, success |-> TRUE, error |-> "",
            email |-> emails[emailIndex], index |-> emailIndex,
            uniqueId |-> emails[emailIndex].uniqueId]

\* calendar-export --email up to emails = [allEmails[emailIndex]]; with
\* parseInt giving NaN both range tests are false and the email is undefined
calendarExportEmail(number) ==
  LET n == parseInt(number) IN
  IF emailsFile.st = "missing" THEN Failure("no emails")
  ELSE IF emailsFile.st = "malformed" THEN Failure("exception")
  ELSE IF n # NaN /\ (n - 1 < 0 \/ n - 1 >= Len(emailsFile.data))
       THEN Failure("not found")
       ELSE [threw |-> FALSE, success |-> TRUE, error |-> "",
             email |-> IF n = NaN THEN NoEmail ELSE emailsFile.data[n],
             index |-> n,
             uniqueId |-> IF n = NaN THEN NoId ELSE emailsFile.data[n].uniqueId]

View(t) ==
  /\ pc = "idle"
  /\ pc' = "viewed"
  /\ token' = t
  /\ result' = resolveEmailIdentifier(t)
  /\ UNCHANGED <<fetcher, enrich, accounts, reply, uid>>

Reply(t) ==
  /\ pc = "idle"
  /\ pc' = "replied"
  /\ token' = t
  /\ result' = replyToEmail(t)
  /\ UNCHANGED <<fetcher, enrich, accounts, reply, uid>>

CalendarExport(t) ==
  /\ pc = "idle"
  /\ pc' = "exported"
  /\ token' = t
  /\ result' = calendarExportEmail(t)
  /\ UNCHANGED <<fetcher, enrich, accounts, reply, uid>>

(***************************************************************************)
(* The reply command with its options (part_002) and replyToEmail          *)
(* (part_000).  request is the request made to the Mail Provider, type the *)
(* type of the result replyToEmail returns, error why the command ended    *)
(* without a result.  fault is the call that throws, if one does.          *)
(***************************************************************************)
\* commander's options: a flag is true or undefined, --message a string (""
\* stands for undefined and for the empty string: both are falsy)
ReplyOptions ==
  [ai : BOOLEAN, send : BOOLEAN, manual : BOOLEAN, draft : BOOLEAN,
   message : {NoId, "thanks"}]

ReplyFaults == {"none", "ensure", "content", "account", "client", "request"}

NoReply ==
  [options |-> [ai |-> FALSE, send |-> FALSE, manual |-> FALSE,
                draft |-> FALSE, message |-> NoId],
   request |-> "", type |-> "", error |-> ""]

Replied(options, request, type, error) ==
  [options |-> options, request |-> request, type |-> type, error |-> error]

\* replyCommand whose replyToEmail lacks the return of the draft preview
replyCommand_NoPreview(emailNumber, options, fault) ==
  LET chosen == replyToEmail(emailNumber) IN
  IF fault = "ensure" THEN Replied(options, "", "", "ensureAccount")
  ELSE IF chosen.error = "invalid number"
  THEN Replied(options, "", "", "invalid number")
  ELSE IF ~options.ai /\ ~options.manual /\ options.message = NoId
  THEN Replied(options, "", "", "no content")
  ELSE IF ~chosen.success THEN Replied(options, "", "", chosen.error)
  ELSE IF options.message = NoId /\ fault = "content"
  THEN Replied(options, "", "", "content")
  ELSE IF fault \in {"account", "client"} THEN Replied(options, "", "", fault)
  ELSE IF options.draft
  THEN IF fault = "request"
       THEN Replied(options, "drafts.create", "", "request")
       ELSE Replied(options, "drafts.create", "draft", "")
  ELSE IF fault = "request"
       THEN Replied(options, "messages.send", "", "request")
       ELSE Replied(options, "messages.send", "sent", "")

\* the action of the reply command: ensureAccount, the tests of the number
\* and of the options, then replyToEmail: the email, the content (--message,
\* else the AI draft, else the prompt), the preview, the account and the
\* client, and drafts.create or messages.send
replyCommand(emailNumber, options, fault) ==
  LET chosen == replyToEmail(emailNumber) IN
  IF fault = "ensure" THEN Replied(options, "", "", "ensureAccount")
  ELSE IF chosen.error = "invalid number"
  THEN Replied(options, "", "", "invalid number")
  ELSE IF ~options.ai /\ ~options.manual /\ options.message = NoId
  THEN Replied(options, "", "", "no content")
  ELSE IF ~chosen.success THEN Replied(options, "", "", chosen.error)
  ELSE IF options.message = NoId /\ fault = "content"
  THEN Replied(options, "", "", "content")
  ELSE IF options.ai /\ ~options.send /\ ~options.draft
  THEN Replied(options, "", "draft-preview", "")
  ELSE IF fault \in {"account", "client"} THEN Replied(options, "", "", fault)
  ELSE IF options.draft
  THEN IF fault = "request"
       THEN Replied(options, "drafts.create", "", "request")
       ELSE Replied(options, "drafts.create", "draft", "")
  ELSE IF fault = "request"
       THEN Replied(options, "messages.send", "", "request")
       ELSE Replied(options, "messages.send", "sent", "")

ReplyTo(t, options, fault) ==
  /\ pc = "idle"
  /\ pc' = "replied"
  /\ token' = t
  /\ result' = IF fault = "ensure" THEN NoResult ELSE replyToEmail(t)
  /\ reply' = replyCommand(t, options, fault)
  /\ UNCHANGED <<fetcher, enrich, accounts, uid>>

\* the command ends
CommandExit ==
  /\ pc \in {"viewed", "replied", "exported"}
  /\ pc' = "idle"
  /\ token' = <<>>
  /\ result' = NoResult
  /\ reply' = NoReply
  /\ UNCHANGED <<fetcher, enrich, accounts, uid>>

Next ==
  \/ \E id \in Ids, d \in Dates : Arrive(id, d)
  \/ \E id \in Ids : Touch(id)
  \/ \E f \in FileNames, st \in {"missing", "malformed"} : FileFault(f, st)
  \/ \E c \in {"fetch", "other"}, max \in 1..MaxResultsBound : Start(c, max)
  \/ CmdRead
  \/ \E ok \in BOOLEAN : FetchBegin(ok)
  \/ \E ok \in BOOLEAN : List(ok)
  \/ \E bad \in SUBSET Ids : Get(bad)
  \/ \E ok \in BOOLEAN : SaveMeta(ok)
  \/ Assign
  \/ \E ok \in BOOLEAN : SaveMap(ok)
  \/ \E ok \in BOOLEAN : SaveCache(ok)
  \/ \E ok \in BOOLEAN : CmdSave(ok)
  \/ Kill
  \/ Exit

Spec == Init /\ [][Next]_vars

(***************************************************************************)
(* The identifier commands between fetches.  The fetches are those of a    *)
(* caller of fetchEmails whose requests succeed; the save of the cache may *)
(* fail, and the environment may delete or corrupt a persisted file.       *)
(***************************************************************************)
ResolveNext ==
  \/ \E id \in Ids, d \in Dates : Arrive(id, d)
  \/ \E f \in FileNames, st \in {"missing", "malformed"} : FileFault(f, st)
  \/ \E max \in 1..MaxResultsBound : Start("other", max)
  \/ FetchBegin(TRUE)
  \/ List(TRUE)
  \/ Get({})
  \/ SaveMeta(TRUE)
  \/ Assign
  \/ SaveMap(TRUE)
  \/ \E ok \in BOOLEAN : SaveCache(ok)
  \/ Exit
  \/ \E t \in Tokens : View(t)
  \/ \E t \in Numbers : Reply(t)
  \/ \E t \in Numbers : CalendarExport(t)
  \/ CommandExit

ResolveSpec == Init /\ [][ResolveNext]_vars

(***************************************************************************)
(* The reply command between fetches that succeed.                         *)
(***************************************************************************)
ReplyNext ==
  \/ \E id \in Ids, d \in Dates : Arrive(id, d)
  \/ \E max \in 1..MaxResultsBound : Start("other", max)
  \/ FetchBegin(TRUE)
  \/ List(TRUE)
  \/ Get({})
  \/ SaveMeta(TRUE)
  \/ Assign
  \/ SaveMap(TRUE)
  \/ SaveCache(TRUE)
  \/ Exit
  \/ \E t \in Numbers, o \in ReplyOptions, fault \in ReplyFaults :
       ReplyTo(t, o, fault)
  \/ CommandExit

ReplySpec == Init /\ [][ReplyNext]_vars

(***************************************************************************)
(* The fetch with the messages.get requests taken one by one.              *)
(***************************************************************************)
FanOutNext ==
  \/ \E id \in Ids, d \in Dates : Arrive(id, d)
  \/ \E max \in 1..MaxResultsBound : Start("other", max)
  \/ FetchBegin(TRUE)
  \/ List(TRUE)
  \/ GetIssue
  \/ \E id \in Ids, ok \in BOOLEAN : GetComplete(id, ok)
  \/ GetJoin
  \/ SaveMeta(TRUE)
  \/ Assign
  \/ SaveMap(TRUE)
  \/ SaveCache(TRUE)
  \/ Exit

FanOutSpec == Init /\ [][FanOutNext]_vars

(***************************************************************************)
(* Fetch after fetch with the same --max, every request and every write    *)
(* succeeding.  A process that has started runs to its end and the user    *)
(* goes on fetching for ever: weak fairness of the steps of the cycle.     *)
(***************************************************************************)
\* the --max of every cycle
FixedMaxResults == 1

FetchCycle ==
  \/ Start("other", FixedMaxResults)
  \/ FetchBegin(TRUE)
  \/ List(TRUE)
  \/ Get({})
  \/ SaveMeta(TRUE)
  \/ Assign
  \/ SaveMap(TRUE)
  \/ SaveCache(TRUE)
  \/ Exit

CyclesNext ==
  \/ \E id \in Ids, d \in Dates : Arrive(id, d)
  \/ FetchCycle

CyclesSpec == Init /\ [][CyclesNext]_vars /\ WF_vars(FetchCycle)

(***************************************************************************)
(* generateEmailId on its own: an email record gets its uniqueId, is       *)
(* written to emails.json and read back by a later process, which computes *)
(* the uniqueId again.  The email is one parseMessage built (its date a    *)
(* Date object) or one that already came from a JSON file (its date a      *)
(* string), with or without a provider id.                                 *)
(***************************************************************************)
Versions == 1..2

EmailInputs ==
  [id : Ids \cup {NoId}, date : Dates, ver : Versions, dform : {"Date", "iso"},
   uniqueId : {NoId}, assignedIndex : {0}]

NoUid ==
  [email |-> NoEmail, first |-> NoId, second |-> NoId, stored |-> NoEmail,
   recomputed |-> NoId]

\* updateEmailMapping computes the uniqueId of an email
Generate(e) ==
  /\ pc = "idle"
  /\ pc' = "generated"
  /\ uid' = [NoUid EXCEPT !.email = e, !.first = generateEmailId(e)]
  /\ UNCHANGED <<fetcher, token, result, reply, enrich, accounts>>

\* the same process computes it once more, for the record it has built
Regenerate ==
  /\ pc = "generated"
  /\ pc' = "regenerated"
  /\ uid' = [uid EXCEPT !.second =
                generateEmailId([uid.email EXCEPT !.uniqueId = uid.first])]
  /\ UNCHANGED <<fetcher, token, result, reply, enrich, accounts>>

\* saveEmailsToCache, and loadCachedEmails in a later process
StoreAndReload ==
  /\ pc = "regenerated"
  /\ pc' = "reloaded"
  /\ uid' = [uid EXCEPT !.stored =
                JsonEmail([uid.email EXCEPT !.uniqueId = uid.first])]
  /\ UNCHANGED <<fetcher, token, result, reply, enrich, accounts>>

\* updateEmailMapping of the later process computes the uniqueId again
Recompute ==
  /\ pc = "reloaded"
  /\ pc' = "recomputed"
  /\ uid' = [uid EXCEPT !.recomputed = generateEmailId(uid.stored)]
  /\ UNCHANGED <<fetcher, token, result, reply, enrich, accounts>>

UidExit ==
  /\ pc = "recomputed"
  /\ pc' = "idle"
  /\ uid' = NoUid
  /\ UNCHANGED <<fetcher, token, result, reply, enrich, accounts>>

UniqueIdNext ==
  \/ \E e \in EmailInputs : Generate(e)
  \/ Regenerate
  \/ StoreAndReload
  \/ Recompute
  \/ UidExit

UniqueIdSpec == Init /\ [][UniqueIdNext]_vars

(***************************************************************************)
(* AI enrichment (src/src/ai/geminiAI.js): the three batch functions.  The *)
(* answer of the AI call is an input: the call fails, or its text holds no *)
(* JSON, or JSON that cannot be parsed, or an array whose entries are null *)
(* or objects with or without an id of the batch and with or without the   *)
(* field asked for.                                                        *)
(***************************************************************************)
\* largest emailBatch
MaxBatch == 2
\* largest array in the AI's answer
MaxEntries == 2

EnrichFields == {"classification", "summary", "suggestedResponse"}

RECURSIVE SeqsUpTo(_, _)
SeqsUpTo(S, n) ==
  IF n = 0 THEN {<<>>}
  ELSE LET shorter == SeqsUpTo(S, n - 1) IN
       shorter \cup {Append(s, x) : s \in shorter, x \in S}

\* batches of emails with distinct ids
Batches ==
  {b \in SeqsUpTo(Ids, MaxBatch) :
     \A i, j \in 1..Len(b) : i # j => b[i] # b[j]}

\* an entry of the answer: null, or an object; id "" is an id of no email
Entries ==
  [null : {FALSE}, id : Ids \cup {NoId}, hasField : BOOLEAN]
    \cup {[null |-> TRUE, id |-> NoId, hasField |-> FALSE]}

Responses ==
  {[kind |-> k, entries |-> <<>>] : k \in {"error", "no json", "bad json"}}
    \cup {[kind |-> "array", entries |-> e] : e \in SeqsUpTo(Entries, MaxEntries)}

NoEnrich ==
  [field |-> "", emailBatch |-> <<>>,
   response |-> [kind |-> "", entries |-> <<>>],
   records |-> <<>>, threw |-> FALSE]

\* array.find((c) => c.id === email.id): reading c.id of null throws
RECURSIVE FindEntry(_, _)
FindEntry(entries, id) ==
  IF entries = <<>> THEN [threw |-> FALSE, found |-> FALSE, hasField |-> FALSE]
  ELSE IF Head(entries).null
       THEN [threw |-> TRUE, found |-> FALSE, hasField |-> FALSE]
       ELSE IF Head(entries).id = id
            THEN [threw |-> FALSE, found |-> TRUE,
                  hasField |-> Head(entries).hasField]
            ELSE FindEntry(Tail(entries), id)

\* emailBatch.map((email) => ({...email, [field]: value}))
WithValue(emailBatch, value) ==
  [i \in 1..Len(emailBatch) |-> [id |-> emailBatch[i], value |-> value]]

\* the map over the batch after a parsed answer: the entry with the email's
\* id, or the default; project: the value is the entry's field and not the
\* entry.  An exception leaves the map for the catch block of the function.
MapBack(emailBatch, entries, project) ==
  IF \E i \in 1..Len(emailBatch) : FindEntry(entries, emailBatch[i]).threw
  THEN WithValue(emailBatch, "error default")
  ELSE [i \in 1..Len(emailBatch) |->
          LET e == FindEntry(entries, emailBatch[i]) IN
          [id |-> emailBatch[i],
           value |-> IF ~e.found THEN "default"
                     ELSE IF project /\ ~e.hasField THEN "undefined"
                     ELSE "ai"]]

\* classifyEmailPriorityBatch and generateEmailSummaryBatch: parseAIResponse
\* returns null for a text without JSON or with JSON that cannot be parsed
classifyEmailPriorityBatch(emailBatch, response) ==
  IF response.kind = "error" THEN WithValue(emailBatch, "error default")
  ELSE IF response.kind \in {"no json", "bad json"}
       THEN WithValue(emailBatch, "parse default")
       ELSE MapBack(emailBatch, response.entries, FALSE)

generateEmailSummaryBatch(emailBatch, response) ==
  IF response.kind = "error" THEN WithValue(emailBatch, "error default")
  ELSE IF response.kind \in {"no json", "bad json"}
       THEN WithValue(emailBatch, "parse default")
       ELSE MapBack(emailBatch, response.entries, FALSE)

\* generateSuggestedResponseBatch: text.match, JSON.parse inside the try block
generateSuggestedResponseBatch(emailBatch, response) ==
  IF response.kind \in {"error", "bad json"}
  THEN WithValue(emailBatch, "error default")
  ELSE IF response.kind = "no json"
       THEN WithValue(emailBatch, "parse default")
       ELSE MapBack(emailBatch, response.entries, TRUE)

Classify(b, r) ==
  /\ pc = "idle"
  /\ pc' = "enriched"
  /\ enrich' = [field |-> "classification", emailBatch |-> b, response |-> r,
                records |-> classifyEmailPriorityBatch(b, r), threw |-> FALSE]
  /\ UNCHANGED <<fetcher, identified, accounts>>

Summarize(b, r) ==
  /\ pc = "idle"
  /\ pc' = "enriched"
  /\ enrich' = [field |-> "summary", emailBatch |-> b, response |-> r,
                records |-> generateEmailSummaryBatch(b, r), threw |-> FALSE]
  /\ UNCHANGED <<fetcher, identified, accounts>>

Suggest(b, r) ==
  /\ pc = "idle"
  /\ pc' = "enriched"
  /\ enrich' = [field |-> "suggestedResponse", emailBatch |-> b, response |-> r,
                records |-> generateSuggestedResponseBatch(b, r),
                threw |-> FALSE]
  /\ UNCHANGED <<fetcher, identified, accounts>>

\* the batch function has returned to processBatches
EnrichReturn ==
  /\ pc = "enriched"
  /\ pc' = "idle"
  /\ enrich' = NoEnrich
  /\ UNCHANGED <<fetcher, identified, accounts>>

EnrichNext ==
  \/ \E b \in Batches, r \in Responses : Classify(b, r)
  \/ \E b \in Batches, r \in Responses : Summarize(b, r)
  \/ \E b \in Batches, r \in Responses : Suggest(b, r)
  \/ EnrichReturn

EnrichSpec == Init /\ [][EnrichNext]_vars

(***************************************************************************)
(* Accounts (the account manager at the end of configUtils.js, and the     *)
(* account commands of part_002).  accounts.json holds the list of         *)
(* accounts and the name of the current one; each command loads it,        *)
(* changes it in memory and saves it as its last step.                     *)
(***************************************************************************)
\* the addresses the OAuth profile may report, and their part before the "@"
Addresses == {"ann@mail", "bob@mail"}
LocalPart(address) == IF address = "ann@mail" THEN "ann" ELSE "bob"
\* --name: none (""), a new name, or the name another address would get
Nicknames == {NoId, "work", "ann"}
AccountNames == {LocalPart(a) : a \in Addresses} \cup (Nicknames \ {NoId})
\* <name-or-email> of account-remove and account-switch
AccountArgs == Addresses \cup AccountNames

\* loadAccountsConfig's default (currentAccount "" stands for null)
NoAccounts == [accounts |-> <<>>, currentAccount |-> NoId]

NoAccountOp == [op |-> "", success |-> FALSE, name |-> NoId]

\* config.accounts.findIndex(name === nameOrEmail || email === nameOrEmail);
\* 0 stands for -1
FindAccount(config, nameOrEmail) ==
  LET hits == {i \in 1..Len(config.accounts) :
                 \/ config.accounts[i].name = nameOrEmail
                 \/ config.accounts[i].email = nameOrEmail}
  IN  IF hits = {} THEN 0 ELSE CHOOSE i \in hits : \A j \in hits : i <= j

\* config.accounts.splice(accountIndex, 1)
Splice(s, k) == [i \in 1..(Len(s) - 1) |-> IF i < k THEN s[i] ELSE s[i + 1]]

\* addAccount after the OAuth flow: the checks, the push, the current account
addAccount(config, nickname, email) ==
  LET accountName == IF nickname # NoId THEN nickname ELSE LocalPart(email)
      newAccount == [name |-> accountName, email |-> email] IN
  IF \/ \E i \in 1..Len(config.accounts) : config.accounts[i].name = accountName
     \/ \E i \in 1..Len(config.accounts) : config.accounts[i].email = email
  THEN [threw |-> TRUE, config |-> config, name |-> NoId]
  ELSE [threw |-> FALSE,
        config |-> [accounts |-> Append(config.accounts, newAccount),
                    currentAccount |->
                      IF config.currentAccount = NoId
                           \/ Len(config.accounts) + 1 = 1
                      THEN accountName ELSE config.currentAccount],
        name |-> accountName]

\* removeAccount that leaves currentAccount as it is
removeAccount_KeepsCurrent(config, nameOrEmail) ==
  LET accountIndex == FindAccount(config, nameOrEmail) IN
  IF accountIndex = 0 THEN [threw |-> TRUE, config |-> config, name |-> NoId]
  ELSE [threw |-> FALSE,
        config |-> [accounts |-> Splice(config.accounts, accountIndex),
                    currentAccount |-> config.currentAccount],
        name |-> config.accounts[accountIndex].name]

removeAccount(config, nameOrEmail) ==
  LET accountIndex == FindAccount(config, nameOrEmail) IN
  IF accountIndex = 0 THEN [threw |-> TRUE, config |-> config, name |-> NoId]
  ELSE LET account == config.accounts[accountIndex]
           rest == Splice(config.accounts, accountIndex) IN
       [threw |-> FALSE,
        config |-> [accounts |-> rest,
                    currentAccount |->
                      IF config.currentAccount = account.name
                      THEN IF Len(rest) > 0 THEN rest[1].name ELSE NoId
                      ELSE config.currentAccount],
        name |-> account.name]

switchAccount(config, nameOrEmail) ==
  LET accountIndex == FindAccount(config, nameOrEmail) IN
  IF accountIndex = 0 THEN [threw |-> TRUE, config |-> config, name |-> NoId]
  ELSE [threw |-> FALSE,
        config |-> [config EXCEPT !.currentAccount =
                                    config.accounts[accountIndex].name],
        name |-> config.accounts[accountIndex].name]

\* getCurrentAccount: without a current account the first account becomes it
getCurrentAccount(config) ==
  IF config.currentAccount = NoId
  THEN IF Len(config.accounts) > 0
       THEN [threw |-> FALSE,
             config |-> [config EXCEPT !.currentAccount = config.accounts[1].name],
             name |-> config.accounts[1].name]
       ELSE [threw |-> TRUE, config |-> config, name |-> NoId]
  ELSE IF \E i \in 1..Len(config.accounts) :
            config.accounts[i].name = config.currentAccount
       THEN [threw |-> FALSE, config |-> config, name |-> config.currentAccount]
       ELSE [threw |-> TRUE, config |-> config, name |-> NoId]

\* a command that ends with saveAccountsConfig: r is what the function
\* computed, ok whether the OAuth flow and the save succeed
AccountCommand(op, r, ok) ==
  /\ pc = "idle"
  /\ pc' = "account"
  /\ IF ok /\ ~r.threw
     THEN /\ accountsFile' = r.config
          /\ accountOp' = [op |-> op, success |-> TRUE, name |-> r.name]
     ELSE /\ UNCHANGED accountsFile
          /\ accountOp' = [op |-> op, success |-> FALSE, name |-> NoId]
  /\ UNCHANGED <<fetcher, identified, enrich>>

AccountAdd(nickname, email, ok) ==
  AccountCommand("add", addAccount(accountsFile, nickname, email), ok)

AccountRemove(nameOrEmail, ok) ==
  AccountCommand("remove", removeAccount(accountsFile, nameOrEmail), ok)

AccountSwitch(nameOrEmail, ok) ==
  AccountCommand("switch", switchAccount(accountsFile, nameOrEmail), ok)

\* getCurrentAccount saves only when it sets the current account
GetCurrentAccount(ok) ==
  AccountCommand("current", getCurrentAccount(accountsFile),
                 ok \/ accountsFile.currentAccount # NoId)

AccountExit ==
  /\ pc = "account"
  /\ pc' = "idle"
  /\ accountOp' = NoAccountOp
  /\ UNCHANGED <<fetcher, identified, enrich, accountsFile>>

AccountNext ==
  \/ \E n \in Nicknames, a \in Addresses, ok \in BOOLEAN : AccountAdd(n, a, ok)
  \/ \E x \in AccountArgs, ok \in BOOLEAN : AccountRemove(x, ok)
  \/ \E x \in AccountArgs, ok \in BOOLEAN : AccountSwitch(x, ok)
  \/ \E ok \in BOOLEAN : GetCurrentAccount(ok)
  \/ AccountExit

AccountSpec == Init /\ [][AccountNext]_vars

(***************************************************************************)
(* Properties                                                              *)
(***************************************************************************)
Count(list, id) == Cardinality({i \in 1..Len(list) : list[i].id = id})
RecordOf(list, id) == list[CHOOSE i \in 1..Len(list) : list[i].id = id]
ReturnedUids(list) == {list[i].uniqueId : i \in 1..Len(list)}

\* the persisted mapping: the file's content, the empty mapping without one
Persisted == IF mapFile.st = "ok" THEN mapFile.data ELSE EmptyMapping

\* a step of a process (the environment acts between processes only)
ProcessStep == ~(pc = "idle" /\ pc' = "idle")

\* C1 (stability): as long as nobody deletes or damages the mapping file,
\* every updateEmailMapping call that returns a list containing an email gives
\* that email the same assignedIndex, whatever else the list holds.
C1_Stability == \A u \in Uids : Cardinality(histIdx[u]) <= 1

\* an email that earlier calls indexed comes back together with a new email
C1_Witness ==
  /\ pc = "savecache"
  /\ \E u, v \in ReturnedUids(emailsWithIds) :
       /\ preHist[u] # {}
       /\ preHist[v] = {}
       /\ pre.map.st = "ok"

Inverse(m) ==
  /\ \A u \in Uids :
       m.idToIndex[u] # 0 =>
         /\ m.idToIndex[u] \in DOMAIN m.indexToId
         /\ m.indexToId[m.idToIndex[u]] = u
  /\ \A i \in DOMAIN m.indexToId :
       m.indexToId[i] # NoId =>
         /\ m.indexToId[i] \in DOMAIN m.idToIndex
         /\ m.idToIndex[m.indexToId[i]] = i
  /\ \A u \in Uids :
       m.idToIndex[u] # 0 =>
         \A v \in Uids \ {u} : m.idToIndex[u] # m.idToIndex[v]

\* C2: starting from an empty persisted mapping, after every updateEmailMapping
\* call idToIndex and indexToId are inverse to each other, in the mapping the
\* call returns and in the mapping file, so no two uniqueIds share an index.
C2_MutuallyInverse ==
  /\ Inverse(mapFile.data)
  /\ pc \in {"savemap", "savecache", "cmdsave", "done"} => Inverse(mapping)

\* a saved mapping with two uniqueIds in it
C2_Witness ==
  /\ mapFile.st = "ok"
  /\ pc = "savecache"
  /\ Cardinality({u \in Uids : mapFile.data.idToIndex[u] # 0}) >= 2

\* C3: the persisted nextIndex is 1 at the start and no step of a process
\* decreases it; an index the persisted mapping gives to a uniqueId is never
\* given to another uniqueId by a process, also when the email is not in the
\* list of a later call.
C3_NeverReused ==
  /\ Persisted.nextIndex = 1
  /\ [][ProcessStep =>
          /\ Persisted'.nextIndex >= Persisted.nextIndex
          /\ \A i \in 1..MaxIndex :
               Persisted.indexToId[i] # NoId =>
                 Persisted'.indexToId[i] = Persisted.indexToId[i]]_vars

\* a call whose list lacks an email indexed earlier and holds a new one
C3_Witness ==
  /\ pc = "savecache"
  /\ pre.map.st = "ok"
  /\ \E i \in 1..MaxIndex :
       /\ pre.map.data.indexToId[i] # NoId
       /\ pre.map.data.indexToId[i] \notin ReturnedUids(emailsWithIds)
  /\ \E u \in ReturnedUids(emailsWithIds) : pre.map.data.idToIndex[u] = 0
  /\ mapFile.data.nextIndex > pre.map.data.nextIndex

\* the ids the provider returned that the cache already held
Refetched == {messages[i] : i \in 1..Len(messages)} \cap SeqIds(cachedEmails)

\* C4 (no-duplicate merge): when the provider returns a message whose id is in
\* the cache, the merged list and the persisted list hold exactly one record
\* with that id, and it is the newly fetched one.
C4_NoDuplicateMerge ==
  /\ pc \in {"assign", "savemap", "savecache", "cmdsave", "done"} =>
       \A id \in Refetched :
         /\ Count(allEmails, id) = 1
         /\ RecordOf(allEmails, id) = RecordOf(newEmails, id)
  /\ pc \in {"cmdsave", "done"} =>
       \A id \in Refetched :
         /\ Count(emailsFile.data, id) = 1
         /\ RecordOf(emailsFile.data, id).ver = RecordOf(newEmails, id).ver
         /\ RecordOf(emailsFile.data, id).date = RecordOf(newEmails, id).date

\* a refetched message whose content changed since it was cached
C4_Witness ==
  /\ pc = "done"
  /\ \E id \in Refetched :
       RecordOf(cachedEmails, id).ver # RecordOf(newEmails, id).ver

Listed == {messages[i] : i \in 1..Len(messages)}

C5_WitnessRefetch ==
  /\ pc = "done"
  /\ cleanStart
  /\ Listed # {}
  /\ Listed \subseteq SeqIds(pre.emails.data)
  /\ Len(pre.emails.data) >= 2

Content(file, default) == IF file.st = "ok" THEN file.data ELSE default

\* C6 (kill safety), as claimed: no file is saved before the merge, so a
\* process killed at any point of a fetch leaves the watermark, the mapping and
\* the cache with the content they had when the process started.
C6_KillSafety ==
  pc = "killed" =>
    /\ Content(metaFile, EmptyMetadata) = Content(pre.meta, EmptyMetadata)
    /\ Content(mapFile, EmptyMapping) = Content(pre.map, EmptyMapping)
    /\ Content(emailsFile, <<>>) = Content(pre.emails, <<>>)

\* the steps of fetchEmails that end before saveEmailsToCache is called
FetchFailSteps ==
  {"auth", "loadmeta", "loadcache", "list", "get", "savemeta", "loadmap",
   "savemap"}

\* C7 (all-or-nothing cache): a fetch that fails at any step before the save
\* of the cache has not written emails.json; until saveEmailsToCache runs the
\* file is what it was when the process started.
C7_AllOrNothing ==
  /\ (pc = "failed" /\ failedAt \in FetchFailSteps) => emailsFile = pre.emails
  /\ pc \in {"cmdread", "begin", "list", "get", "savemeta", "assign",
             "savemap", "savecache"} => emailsFile = pre.emails

\* the save of the mapping fails after the watermark of a new batch was saved
C7_Witness ==
  /\ pc = "failed"
  /\ failedAt = "savemap"
  /\ pre.emails.st = "ok"
  /\ metaFile # pre.meta

\* C8 (partial fetch failure), as claimed: a message whose request or parse
\* fails is dropped and the fetch goes on; the failure never ends fetchEmails.
C8_PartialFailureTolerated == ~(pc = "failed" /\ failedAt = "get")

AfterBegin ==
  {"list", "get", "savemeta", "assign", "savemap", "savecache", "cmdsave",
   "done"}
AfterAssign == {"savemap", "savecache", "cmdsave", "done"}
LoadSteps == {"loadmeta", "loadcache", "loadmap"}

\* every index of the returned mapping was allocated by this call, from 1 on
FreshMapping ==
  /\ mapping.nextIndex = Cardinality(ReturnedUids(emailsWithIds)) + 1
  /\ \A i \in 1..Len(emailsWithIds) :
       emailsWithIds[i].assignedIndex \in 1..Cardinality(ReturnedUids(emailsWithIds))

\* C9, as claimed: a process that reads a malformed email_id_mapping.json or
\* emails.json through loadEmailIdMapping / loadCachedEmails gets an error, it
\* never goes on with the default.
C9_MalformedSurfaced ==
  /\ <<"map", "malformed">> \notin fell
  /\ <<"emails", "malformed">> \notin fell

\* C9, amended: a malformed email_id_mapping.json or emails.json is not
\* surfaced by loadEmailIdMapping / loadCachedEmails; the operation goes on
\* with the empty mapping, or the empty cache, as it does for a missing file.
C9_MalformedDefaults ==
  /\ pc = "failed" => failedAt \notin {"loadcache", "loadmap"}
  /\ (pc \in AfterAssign /\ pre.map.st = "malformed") => FreshMapping
  /\ (pc \in AfterBegin /\ pre.emails.st = "malformed") => cachedEmails = <<>>

\* a fetch completes over a malformed mapping file
C9_Witness ==
  /\ pc = "done"
  /\ pre.map.st = "malformed"
  /\ Len(emailsWithIds) >= 1

\* C10 (missing-state defaults): with email_id_mapping.json or emails.json
\* missing or unreadable no load fails; updateEmailMapping works on the empty
\* mapping (nextIndex 1) and fetchEmails on the empty cache.
C10_MissingDefaults ==
  /\ pc = "failed" => failedAt \notin LoadSteps
  /\ (pc \in AfterAssign /\ pre.map.st # "ok") => FreshMapping
  /\ (pc \in AfterBegin /\ pre.emails.st # "ok") => cachedEmails = <<>>
  /\ (pc \in AfterBegin /\ pre.meta.st # "ok") => metadata = EmptyMetadata

\* a fetch completes with the mapping file deleted and the cache kept
C10_Witness ==
  /\ pc = "done"
  /\ pre.map.st = "missing"
  /\ pre.emails.st = "ok"
  /\ Len(emailsWithIds) >= 2

\* C11 (persistence failure is fatal): when fetchEmails has returned a list to
\* its caller, email_id_mapping.json holds the mapping of that call and
\* emails.json holds the returned list; a failed write of either file ends
\* fetchEmails with the error and no list reaches the caller.
C11_PersistenceFailureFatal ==
  /\ pc \in {"cmdsave", "done"} =>
       /\ mapFile = OkFile(mapping)
       /\ emailsFile = OkFile(JsonEmails(emailsWithIds))
  /\ (pc = "failed" /\ failedAt \in {"savemap", "savecache"}) =>
       emailsWithIds = <<>>

\* the write of the cache fails after the mapping of a new email was written
C11_Witness ==
  /\ pc = "failed"
  /\ failedAt = "savecache"
  /\ mapFile # pre.map
  /\ emailsFile = pre.emails

\* the keys of the persisted idToIndex whose email is in emails.json with the
\* index the mapping gives it
CachedKeys ==
  {u \in Uids :
     /\ Persisted.idToIndex[u] # 0
     /\ \E i \in 1..Len(emailsFile.data) :
          /\ emailsFile.data[i].uniqueId = u
          /\ emailsFile.data[i].assignedIndex = Persisted.idToIndex[u]}

\* C12 (exact-ID round trip), as claimed: view with the full uniqueId u of a
\* key of idToIndex whose email is in the cached list resolves to that email,
\* to uniqueId u and to index idToIndex[u], whatever characters u is made of.
C12_ExactIdRoundTrip ==
  (pc = "viewed" /\ emailsFile.st = "ok") =>
    \A u \in CachedKeys :
      token = Spelling[u] =>
        /\ result.success
        /\ result.email.uniqueId = u
        /\ result.uniqueId = u
        /\ result.index = Persisted.idToIndex[u]

\* the positions of emails.json whose email carries index n
AtIndex(n) ==
  {i \in 1..Len(emailsFile.data) : emailsFile.data[i].assignedIndex = n}

\* C13 (numeric resolution), as claimed: view with an identifier that is the
\* integer n (the test of findEmailByIdentifier: Number(identifier) is an
\* integer) resolves to the cached email whose assignedIndex is n when there
\* is one, and to not-found otherwise.
C13_NumericResolution ==
  (pc = "viewed" /\ emailsFile.st = "ok" /\ NumberOf(token) # NaN) =>
    IF AtIndex(NumberOf(token)) # {}
    THEN /\ result.success
         /\ result.index = NumberOf(token)
         /\ \E i \in AtIndex(NumberOf(token)) : result.email = emailsFile.data[i]
    ELSE ~result.success /\ result.error = "not found"

\* the keys of the persisted idToIndex that start with the identifier, in
\* the order of Object.keys
MatchingKeys ==
  LET keys == ObjectKeys(Persisted) IN
  [i \in {j \in 1..Len(keys) : StartsWith(Spelling[keys[j]], token)} |-> keys[i]]

FirstMatchingKey ==
  MatchingKeys[CHOOSE i \in DOMAIN MatchingKeys :
                 \A j \in DOMAIN MatchingKeys : i <= j]

\* view was given a prefix, of 8 or more characters, of a key: no number, no
\* key itself
PrefixCase ==
  /\ pc = "viewed"
  /\ emailsFile.st = "ok"
  /\ NumberOf(token) = NaN
  /\ Len(token) >= MinPrefixLen
  /\ IdToIndexAt(Persisted, token) = 0
  /\ DOMAIN MatchingKeys # {}

\* C14 (prefix resolution), as claimed: such an identifier always resolves
\* to a cached email whose uniqueId starts with it, the email of the first
\* matching key.
C14_PrefixResolution ==
  PrefixCase =>
    /\ result.success
    /\ StartsWith(Spelling[result.uniqueId], token)
    /\ result.uniqueId = FirstMatchingKey

\* C14, amended: such an identifier resolves to the email of the first
\* matching key when emails.json holds that email under the index of the
\* mapping; when no cached email carries that index the result is not-found,
\* also when the email of a later matching key is cached.
C14_PrefixFirstKey ==
  PrefixCase =>
    /\ FirstMatchingKey \in CachedKeys =>
         /\ result.success
         /\ result.uniqueId = FirstMatchingKey
         /\ result.email.uniqueId = FirstMatchingKey
         /\ result.index = Persisted.idToIndex[FirstMatchingKey]
         /\ StartsWith(Spelling[result.uniqueId], token)
    /\ AtIndex(Persisted.idToIndex[FirstMatchingKey]) = {} =>
         ~result.success /\ result.error = "not found"

\* an identifier that two keys start with, both emails cached
C14_Witness ==
  /\ PrefixCase
  /\ Cardinality(DOMAIN MatchingKeys) >= 2
  /\ \A i \in DOMAIN MatchingKeys : MatchingKeys[i] \in CachedKeys
  /\ result.success

\* view was given fewer than 8 characters that are no number and no key
ShortCase ==
  /\ pc = "viewed"
  /\ emailsFile.st = "ok"
  /\ Len(token) < MinPrefixLen
  /\ NumberOf(token) = NaN
  /\ IdToIndexAt(Persisted, token) = 0

\* C15 (no prefix matching below 8 characters): an identifier of fewer than 8
\* characters that is neither a number nor a key of idToIndex resolves to
\* not-found, also when keys of idToIndex start with it.
C15_ShortPrefixNotFound ==
  ShortCase => ~result.success /\ result.error = "not found"

\* the identifier is the first 7 characters of the uniqueId of a cached email
C15_Witness ==
  /\ ShortCase
  /\ Len(token) = MinPrefixLen - 1
  /\ \E u \in CachedKeys : StartsWith(Spelling[u], token)

\* C16 (a miss is a value): resolveEmailIdentifier never throws.  Whatever
\* the identifier and whatever the state of emails.json and of the mapping
\* file, it returns either a failure with an error text and no email, or a
\* success with an email of emails.json, the index that email carries and its
\* uniqueId; with emails.json missing or unreadable it returns a failure.
C16_MissIsAValue ==
  pc = "viewed" =>
    /\ ~result.threw
    /\ IF result.success
       THEN /\ result.error = ""
            /\ emailsFile.st = "ok"
            /\ \E i \in 1..Len(emailsFile.data) : result.email = emailsFile.data[i]
            /\ result.index = result.email.assignedIndex
            /\ result.uniqueId = result.email.uniqueId
       ELSE /\ result.error # ""
            /\ result.email = NoEmail
    /\ emailsFile.st = "missing" => result.error = "no emails"
    /\ emailsFile.st = "malformed" => result.error = "exception"

\* view over an emails.json that cannot be parsed, the mapping file intact
C16_Witness ==
  /\ pc = "viewed"
  /\ emailsFile.st = "malformed"
  /\ mapFile.st = "ok"
  /\ ~result.success

\* C17 (email numbers persist across commands), as claimed: with no file
\* ever lost or damaged, `reply n` and `calendar-export --email n` act on the
\* email that `view n` displays, the one whose assignedIndex is n, also after
\* later fetches have put newer emails in front of the cached list.
C17_NumbersPersistent ==
  (pc \in {"replied", "exported"} /\ IsDigits(token) /\ faults = 0) =>
    /\ result.success => result.email.assignedIndex = DecimalValue(token)
    /\ resolveEmailIdentifier(token).success =>
         /\ result.success
         /\ result.email = resolveEmailIdentifier(token).email

\* the cache and the mapping number the same n emails 1..n
WellNumbered(emails, m) ==
  /\ m.nextIndex = Len(emails) + 1
  /\ {emails[i].assignedIndex : i \in 1..Len(emails)} = 1..Len(emails)
  /\ \A i \in 1..Len(emails) :
       /\ emails[i].uniqueId = emails[i].id
       /\ m.idToIndex[emails[i].uniqueId] = emails[i].assignedIndex

\* the index emails.json gave to the email id when the process started
PreIndex(id) == RecordOf(pre.emails.data, id).assignedIndex

NewIds == Listed \ SeqIds(pre.emails.data)

\* C18 (end-to-end index allocation): a fetch over an empty cache and an
\* empty mapping that returns n messages leaves n records in emails.json,
\* numbered 1..n from the newest to the oldest, and nextIndex = n + 1.  A
\* later fetch over n records so numbered that returns k messages new to the
\* cache leaves n + k records: every earlier email keeps its index and the
\* new ones receive n+1..n+k.
C18_EndToEndAllocation ==
  /\ (/\ pc = "done"
      /\ Content(pre.emails, <<>>) = <<>>
      /\ Content(pre.map, EmptyMapping) = EmptyMapping) =>
       /\ Len(emailsFile.data) = Len(messages)
       /\ SeqIds(emailsFile.data) = Listed
       /\ \A i \in 1..Len(emailsFile.data) : emailsFile.data[i].assignedIndex = i
       /\ \A i, j \in 1..Len(emailsFile.data) :
            i < j => emailsFile.data[i].date >= emailsFile.data[j].date
       /\ mapFile.data.nextIndex = Len(messages) + 1
  /\ (/\ pc = "done"
      /\ pre.emails.st = "ok"
      /\ pre.map.st = "ok"
      /\ WellNumbered(pre.emails.data, pre.map.data)) =>
       LET n == Len(pre.emails.data)
           k == Cardinality(NewIds) IN
       /\ Len(emailsFile.data) = n + k
       /\ \A id \in SeqIds(pre.emails.data) :
            /\ Count(emailsFile.data, id) = 1
            /\ RecordOf(emailsFile.data, id).assignedIndex = PreIndex(id)
       /\ {RecordOf(emailsFile.data, id).assignedIndex : id \in NewIds}
            = (n + 1)..(n + k)
       /\ mapFile.data.nextIndex = n + k + 1
       /\ WellNumbered(emailsFile.data, mapFile.data)

\* a first fetch of two messages with different dates
C18_WitnessFirst ==
  /\ pc = "done"
  /\ pre.emails.st = "missing"
  /\ pre.map.st = "missing"
  /\ Len(emailsFile.data) = 2
  /\ emailsFile.data[1].date > emailsFile.data[2].date

\* a later fetch that returns the cached message again, and a new one
C18_Witness ==
  /\ pc = "done"
  /\ pre.emails.st = "ok"
  /\ pre.map.st = "ok"
  /\ WellNumbered(pre.emails.data, pre.map.data)
  /\ pre.emails.data # <<>>
  /\ SeqIds(pre.emails.data) \subseteq Listed
  /\ NewIds # {}

NeutralDefaults == {"default", "parse default", "error default"}

\* the answer names the email: one of its entries is an object with that id
Names(response, id) ==
  /\ response.kind = "array"
  /\ \E i \in 1..Len(response.entries) :
       ~response.entries[i].null /\ response.entries[i].id = id

\* C19 (enrichment defaults), as claimed: each batch function returns one
\* record per email of the batch, in the order of the batch, and every record
\* carries a value in the function's field; when the AI call fails, its text
\* cannot be parsed, or its answer does not name the email, the value is a
\* neutral default; no error leaves the function.
C19_EnrichmentDefaults ==
  pc = "enriched" =>
    /\ ~enrich.threw
    /\ Len(enrich.records) = Len(enrich.emailBatch)
    /\ \A i \in 1..Len(enrich.records) :
         /\ enrich.records[i].id = enrich.emailBatch[i]
         /\ enrich.records[i].value # "undefined"
         /\ ~Names(enrich.response, enrich.emailBatch[i]) =>
              enrich.records[i].value \in NeutralDefaults

\* C20 (the added account is active), as claimed: after a successful
\* account-add the current account of accounts.json is the added account,
\* whether or not another account was current before the command.
C20_AddedAccountIsActive ==
  (pc = "account" /\ accountOp.op = "add" /\ accountOp.success) =>
    accountsFile.currentAccount = accountOp.name

\* the command came back from replyToEmail with a result
ReplySucceeded == pc = "replied" /\ reply.type # ""

\* C21 (what reply sends): replyToEmail asks the Mail Provider to send a
\* message only if the draft option is not set and either the ai option is
\* not set or the send option is set; with draft set it creates a draft and
\* sends nothing; with ai set and neither send nor draft set it returns a
\* draft preview and makes no request to the Mail Provider.
C21_ReplySendsOnlyOnRequest ==
  pc = "replied" =>
    /\ reply.request = "messages.send" =>
         /\ ~reply.options.draft
         /\ ~reply.options.ai \/ reply.options.send
    /\ reply.options.draft =>
         /\ reply.request # "messages.send"
         /\ reply.type # "" => reply.type = "draft" /\ reply.request = "drafts.create"
    /\ (reply.options.ai /\ ~reply.options.send /\ ~reply.options.draft) =>
         /\ reply.request = ""
         /\ reply.type # "" => reply.type = "draft-preview"
    /\ reply.type = "sent" <=> (reply.request = "messages.send" /\ reply.error = "")

\* reply --ai on a cached email, without --send and without --draft, and
\* with a message given as well
C21_Witness ==
  /\ ReplySucceeded
  /\ reply.options.ai
  /\ ~reply.options.send
  /\ ~reply.options.draft
  /\ reply.options.message # NoId
  /\ reply.type = "draft-preview"
  /\ result.success

\* fetchEmails has returned its list
Fetched == pc \in {"cmdsave", "done"}

\* C22 (cache and mapping stay consistent): after every successful fetch,
\* also one that finds no new message after the mapping file was reset while
\* the cache was kept, every record r of emails.json has
\* idToIndex[r.uniqueId] = r.assignedIndex and
\* indexToId[r.assignedIndex] = r.uniqueId in the persisted mapping.
C22_CacheMappingConsistent ==
  Fetched =>
    /\ emailsFile.st = "ok"
    /\ \A i \in 1..Len(emailsFile.data) :
         LET r == emailsFile.data[i] IN
         /\ r.uniqueId \in Uids
         /\ r.assignedIndex \in 1..MaxIndex
         /\ Persisted.idToIndex[r.uniqueId] = r.assignedIndex
         /\ Persisted.indexToId[r.assignedIndex] = r.uniqueId

\* a fetch that finds nothing new, over a cache of two emails whose mapping
\* file was lost; one of them receives another index than it had
C22_Witness ==
  /\ pc = "done"
  /\ Listed = {}
  /\ pre.map.st # "ok"
  /\ pre.emails.st = "ok"
  /\ Len(emailsFile.data) >= 2
  /\ \E i \in 1..Len(emailsFile.data) :
       emailsFile.data[i].assignedIndex # pre.emails.data[i].assignedIndex

\* the cache as the process found it
PreCache == Content(pre.emails, <<>>)

\* the positions of the cached records whose id the provider did not return
KeptPositions == {i \in 1..Len(PreCache) : PreCache[i].id \notin Listed}

\* the k-th of them, in the order of the cache
KeptRecord(k) ==
  PreCache[CHOOSE i \in KeptPositions :
             Cardinality({j \in KeptPositions : j < i}) = k - 1]

\* C23 (merge composition and order): the list a fetch persists and returns
\* is the new batch, newest first, followed by the cached records whose
\* provider id is not in the new batch, in the order they had in the cache;
\* nothing else is in the list.
C23_MergeComposition ==
  Fetched =>
    LET n == Len(messages)
        k == Cardinality(KeptPositions) IN
    /\ emailsFile.data = JsonEmails(emailsWithIds)
    /\ Len(emailsWithIds) = n + k
    /\ {emailsWithIds[i].id : i \in 1..n} = Listed
    /\ \A i \in 1..n :
         /\ emailsWithIds[i].date = inbox[emailsWithIds[i].id].date
         /\ emailsWithIds[i].ver = inbox[emailsWithIds[i].id].ver
    /\ \A i, j \in 1..n : i < j => emailsWithIds[i].date >= emailsWithIds[j].date
    /\ \A j \in 1..k :
         /\ emailsWithIds[n + j].id = KeptRecord(j).id
         /\ emailsWithIds[n + j].date = KeptRecord(j).date
         /\ emailsWithIds[n + j].ver = KeptRecord(j).ver

\* a batch of two messages of different dates, one of them cached before, in
\* front of a cached record that the provider did not return
C23_Witness ==
  /\ pc = "done"
  /\ Len(messages) = 2
  /\ emailsWithIds[1].date > emailsWithIds[2].date
  /\ Cardinality(KeptPositions) >= 1
  /\ Len(PreCache) > Cardinality(KeptPositions)

\* the positions of fetchEmails after the watermark step
AfterSaveMeta == {"assign", "savemap", "savecache", "cmdsave", "done"}

\* C24 (watermark update): once a fetch whose list request returned at least
\* one message has passed the save of the watermark, cache_metadata.json
\* holds the id and the date of a message of the batch that no message of
\* the batch is newer than; a fetch whose list request returned nothing
\* leaves cache_metadata.json as it found it.
C24_WatermarkUpdate ==
  pc \in AfterSaveMeta =>
    IF Listed # {}
    THEN /\ metaFile.st = "ok"
         /\ metaFile.data.lastFetchedId \in Listed
         /\ metaFile.data.lastFetchedTimestamp
              = inbox[metaFile.data.lastFetchedId].date
         /\ \A id \in Listed : inbox[id].date <= metaFile.data.lastFetchedTimestamp
    ELSE metaFile = pre.meta

\* a batch of two messages of different dates over an older watermark
C24_Witness ==
  /\ pc = "done"
  /\ Cardinality(Listed) = 2
  /\ \E id \in Listed : inbox[id].date < metaFile.data.lastFetchedTimestamp
  /\ pre.meta.st = "ok"
  /\ metaFile # pre.meta

\* a fetch that finds nothing leaves the watermark of the fetch before it
C24_WitnessNone ==
  /\ pc = "done"
  /\ Listed = {}
  /\ pre.meta.st = "ok"

\* the place of a listed id in the answer of the list request
ListedAt(id) == CHOOSE i \in 1..Len(messages) : messages[i] = id

\* the mapping as the process found it
PreMapping == Content(pre.map, EmptyMapping)

\* how many records in front of position i are new to that mapping
NewBefore(i) ==
  Cardinality({j \in 1..(i - 1) :
                 PreMapping.idToIndex[emailsWithIds[j].uniqueId] = 0})

\* C25 (fan-out order independence): fetchEmails goes on only when every
\* messages.get request has completed, and what it then computes does not
\* depend on the order of completion: the batch is ordered by date, newest
\* first, and by the place in the list answer among equal dates; so are the
\* first records of the merged list; an email new to the mapping receives
\* the next free index in the order of the merged list; the watermark is
\* that of the first email of the batch.
C25_FanOutOrderIndependent ==
  /\ pc \in {"savemeta"} \cup AfterSaveMeta =>
       /\ Listed # {} =>
            /\ fanout.pending = {}
            /\ {fanout.completed[i] : i \in 1..Len(fanout.completed)} = Listed
       /\ Len(newEmails) = Len(messages)
       /\ {newEmails[i].id : i \in 1..Len(newEmails)} = Listed
       /\ \A i, j \in 1..Len(newEmails) :
            i < j =>
              \/ newEmails[i].date > newEmails[j].date
              \/ /\ newEmails[i].date = newEmails[j].date
                 /\ ListedAt(newEmails[i].id) < ListedAt(newEmails[j].id)
  /\ (pc \in AfterSaveMeta /\ Listed # {}) =>
       /\ metaFile.data.lastFetchedId = newEmails[1].id
       /\ metaFile.data.lastFetchedTimestamp = newEmails[1].date
  /\ Fetched =>
       /\ \A i \in 1..Len(newEmails) : emailsFile.data[i].id = newEmails[i].id
       /\ \A i \in 1..Len(emailsWithIds) :
            LET known == PreMapping.idToIndex[emailsWithIds[i].uniqueId] IN
            /\ emailsFile.data[i].assignedIndex = emailsWithIds[i].assignedIndex
            /\ emailsWithIds[i].assignedIndex =
                 IF known # 0 THEN known
                 ELSE PreMapping.nextIndex + NewBefore(i)

\* two new messages of the same date whose requests completed in the
\* opposite order of the list answer
C25_Witness ==
  /\ pc = "done"
  /\ Len(messages) = 2
  /\ fanout.completed = <<messages[2], messages[1]>>
  /\ inbox[messages[1]].date = inbox[messages[2]].date
  /\ \A i \in 1..2 : PreMapping.idToIndex[messages[i]] = 0

\* C26 (uniqueId determinism), as claimed: generateEmailId returns the
\* provider id as it is when the email has one; otherwise its value depends
\* on the date alone (the model's records differ in nothing else that is
\* hashed), not on the rest of the record; computed again in the same
\* process it is the same; and computed again by a later process for the
\* record read back from emails.json it is the uniqueId stored in that
\* record.
C26_UniqueIdDeterministic ==
  /\ pc \in {"generated", "regenerated", "reloaded", "recomputed"} =>
       /\ uid.email.id # NoId => uid.first = uid.email.id
       /\ uid.email.id = NoId =>
            \A v \in Versions :
              generateEmailId([uid.email EXCEPT !.ver = v]) = uid.first
  /\ pc \in {"regenerated", "reloaded", "recomputed"} => uid.second = uid.first
  /\ pc = "recomputed" =>
       /\ uid.stored.uniqueId = uid.first
       /\ uid.recomputed = uid.stored.uniqueId

\* the persisted watermark (0: none)
Watermark == Content(metaFile, EmptyMetadata).lastFetchedTimestamp

Cached(id) == emailsFile.st = "ok" /\ id \in SeqIds(emailsFile.data)

\* C27 (no message is skipped for good), as claimed: a message that is in
\* the inbox with a date newer than the watermark, at a moment when no fetch
\* is running, is in emails.json after finitely many successful fetches
\* with the same --max, also when more than --max such messages are in the
\* inbox at the time of a fetch.
C27_NoMessageSkipped ==
  \A id \in Ids :
    (pc = "idle" /\ inbox[id].date > Watermark) ~> Cached(id)

\* C28 (the merge never loses a cached email): after every successful fetch
\* every provider id that emails.json held when the process started is still
\* in emails.json, when the provider returned new messages and when it
\* returned none.
C28_NoCachedEmailLost ==
  Fetched => SeqIds(PreCache) \subseteq SeqIds(emailsFile.data)

\* a fetch that returned a new message over a cache of two emails
C28_Witness ==
  /\ pc = "done"
  /\ Len(PreCache) = 2
  /\ Listed # {}
  /\ Listed \cap SeqIds(PreCache) = {}

\* a fetch that returned nothing over a cache of two emails
C28_WitnessNone ==
  /\ pc = "done"
  /\ Len(PreCache) = 2
  /\ Listed = {}

\* C29 (the records of the cache are uniquely numbered): after every
\* successful fetch the records of emails.json have pairwise distinct
\* provider ids and pairwise distinct assignedIndex values.  The cache and
\* the mapping start empty and the provider lists no id twice in one answer.
C29_UniquelyNumbered ==
  Fetched =>
    \A i, j \in 1..Len(emailsFile.data) :
      i # j =>
        /\ emailsFile.data[i].id # emailsFile.data[j].id
        /\ emailsFile.data[i].assignedIndex # emailsFile.data[j].assignedIndex

\* a fetch that puts two new messages in front of a cached one
C29_Witness ==
  /\ pc = "done"
  /\ Len(emailsFile.data) = 3
  /\ Len(PreCache) = 1
  /\ Cardinality(Listed) = 2

\* C30 (current account validity): after any sequence of account-add,
\* account-remove and account-switch commands, starting without accounts,
\* currentAccount is null exactly when the list of accounts is empty and is
\* otherwise the name of an account of the list; getCurrentAccount then
\* returns that account and fails only when there is no account.
C30_CurrentAccountValid ==
  /\ accountsFile.currentAccount = NoId <=> accountsFile.accounts = <<>>
  /\ accountsFile.currentAccount # NoId =>
       \E i \in 1..Len(accountsFile.accounts) :
         accountsFile.accounts[i].name = accountsFile.currentAccount
  /\ getCurrentAccount(accountsFile).threw <=> accountsFile.accounts = <<>>
  /\ ~getCurrentAccount(accountsFile).threw =>
       getCurrentAccount(accountsFile).name = accountsFile.currentAccount
  /\ (pc = "account" /\ accountOp.op = "current") =>
       (accountOp.success <=> accountsFile.accounts # <<>>)

\* the current account was removed while another account remains
C30_Witness ==
  /\ pc = "account"
  /\ accountOp.op = "remove"
  /\ accountOp.success
  /\ accountsFile.accounts # <<>>
  /\ accountsFile.currentAccount # accountOp.name
  /\ accountsFile.currentAccount = accountsFile.accounts[1].name

====
